---- MODULE Spec2Model ----
(***************************************************************************)
(* A model of AssistantAgent (autogen_agentchat/agents/_assistant_agent.py):*)
(* construction, a turn of on_messages_stream as the sequence of its        *)
(* suspension points (awaits and yields), and the calls made between turns  *)
(* (on_reset, save_state, load_state).  Strings are modelled as sequences   *)
(* of tokens, so that formatting and joining are real operations.           *)
(***************************************************************************)
EXTENDS Naturals, Sequences, FiniteSets, TLC

VARIABLES
    agent,          \* the constructed object's attributes (self._tools, ...)
    init_args,      \* the arguments __init__ was called with
    model_context,  \* self._model_context: the ordered message history
    warned,         \* the warnings emitted by warnings.warn, in order
    turn,           \* per invocation of on_messages_stream: its locals and position
    caller,         \* what the caller has done: its last call, the turns it has closed
    saved_state,    \* the mapping save_state returned last
    new_agent       \* a second agent, the one a saved state is loaded on

vars == <<agent, init_args, model_context, warned, turn, caller, saved_state, new_agent>>

\* what no step of a turn touches
outside == <<caller, saved_state, new_agent>>

-----------------------------------------------------------------------------
(* Bounds of the model. *)

MaxTools == 2
MaxHandoffs == 2
MaxBatch == 2
MaxCalls == 2
MaxMemory == 1

-----------------------------------------------------------------------------
(* Helpers over sequences. *)

SeqToSet(s) == {s[i] : i \in DOMAIN s}

BoundedSeq(S, n) == UNION {[1..k -> S] : k \in 0..n}

Min(S) == CHOOSE x \in S : \A y \in S : x <= y

LastOf(s) == s[Len(s)]

RECURSIVE Flatten(_)
Flatten(ss) == IF ss = <<>> THEN <<>> ELSE Head(ss) \o Flatten(Tail(ss))

\* sep.join(parts), every part and the result being token sequences
RECURSIVE Join(_, _)
Join(parts, sep) ==
    IF parts = <<>> THEN <<>>
    ELSE IF Len(parts) = 1 THEN Head(parts)
    ELSE Head(parts) \o <<sep>> \o Join(Tail(parts), sep)

-----------------------------------------------------------------------------
(* The values the collaborators can supply. *)

ToolNames == {"get_time", "transfer_to_a"}

\* HandoffBase(target): name is "transfer_to_<target>", handoff_tool has that
\* name and returns the message.
HandoffPool ==
    { [target |-> "a", name |-> "transfer_to_a", message |-> <<"Transferred to a">>],
      [target |-> "b", name |-> "transfer_to_b", message |-> <<"Transferred to b">>] }

CallNames == {"get_time", "transfer_to_a", "transfer_to_b"}

\* argument payloads: one that json.loads accepts, one that it rejects
ArgPayloads == {"{}", "{oops"}
JsonLoadsFails(arguments) == arguments = "{oops"

ToolValues == {"12:00"}
Texts == {<<"Paris">>, <<"It is noon">>}

SummaryFormats ==
    { <<"{result}">>,
      <<"{tool_name}", "(", "{arguments}", "): ", "{result}">> }

TextMessageIn == [type |-> "TextMessage", content |-> <<"hello">>, source |-> "user"]
MultiModalMessageIn ==
    [type |-> "MultiModalMessage", content |-> <<"look", "<image>">>, source |-> "user"]
ChatMessagesIn == {TextMessageIn, MultiModalMessageIn}

AgentName == "assistant"

-----------------------------------------------------------------------------
(* LLM messages (autogen_core.models), all of one shape. *)

SystemMessage(content) ==
    [type |-> "SystemMessage", content |-> content, source |-> "",
     calls |-> <<>>, results |-> <<>>]

UserMessage(content, source) ==
    [type |-> "UserMessage", content |-> content, source |-> source,
     calls |-> <<>>, results |-> <<>>]

\* AssistantMessage(content=result.content, source=self.name)
AssistantMessage(result, source) ==
    [type |-> "AssistantMessage", content |-> result.text, source |-> source,
     calls |-> result.calls, results |-> <<>>]

FunctionExecutionResultMessage(results) ==
    [type |-> "FunctionExecutionResultMessage", content |-> <<>>, source |-> "",
     calls |-> <<>>, results |-> results]

FunctionCall(id, name, arguments) == [id |-> id, name |-> name, arguments |-> arguments]

FunctionExecutionResult(content, call_id) == [content |-> content, call_id |-> call_id]

\* CreateResult.content: a str, or a list of FunctionCall
TextResult(text) == [kind |-> "text", text |-> text, calls |-> <<>>]
CallsResult(calls) == [kind |-> "calls", text |-> <<>>, calls |-> calls]

CallId(i) == <<"call", i>>

CallLists ==
    UNION { { [i \in 1..k |-> FunctionCall(CallId(i), nm[i], ar[i])] :
                nm \in [1..k -> CallNames], ar \in [1..k -> ArgPayloads] } :
            k \in 0..MaxCalls }

CreateResults == {TextResult(x) : x \in Texts} \cup {CallsResult(c) : c \in CallLists}

-----------------------------------------------------------------------------
(* AssistantAgent.__init__ *)

NoList == [given |-> FALSE, items |-> <<>>]
SomeList(s) == [given |-> TRUE, items |-> s]

ToolsArgs == {NoList} \cup {SomeList(s) : s \in BoundedSeq(ToolNames, MaxTools)}
HandoffsArgs == {NoList} \cup {SomeList(s) : s \in BoundedSeq(HandoffPool, MaxHandoffs)}

NamesOf(hs) == [i \in DOMAIN hs |-> hs[i].name]

HasDuplicatesNever(names) == FALSE

\* lines 281 and 299: len(names) != len(set(names))
HasDuplicates(names) == Len(names) # Cardinality(SeqToSet(names))

\* The exception __init__ raises for these arguments, or "ok".
InitOutcome(tools, handoffs, function_calling) ==
    IF tools.given /\ ~function_calling
    THEN "ValueError: The model does not support function calling."
    ELSE IF HasDuplicates(tools.items)
    THEN "ValueError: Tool names must be unique"
    ELSE IF handoffs.given /\ ~function_calling
    THEN "ValueError: The model does not support function calling, which is needed for handoffs."
    ELSE IF HasDuplicates(NamesOf(handoffs.items))
    THEN "ValueError: Handoff names must be unique"
    ELSE IF \E i \in DOMAIN handoffs.items : handoffs.items[i].name \in SeqToSet(tools.items)
    THEN "ValueError: Handoff names must be unique from tool names"
    ELSE "ok"

\* self._handoffs: Dict[str, HandoffBase]; a later entry of the same name replaces
\* an earlier one
HandoffDict(hs) ==
    [n \in SeqToSet(NamesOf(hs)) |->
        hs[CHOOSE i \in DOMAIN hs :
              /\ hs[i].name = n
              /\ \A j \in DOMAIN hs : hs[j].name = n => j <= i]]

DefaultSystemMessages == <<SystemMessage(<<"You are a helpful AI assistant.">>)>>

NewAgent ==
    [state |-> "new", error |-> "", tools |-> <<>>, handoff_tools |-> <<>>,
     handoffs |-> HandoffDict(<<>>), vision |-> FALSE,
     system_messages |-> <<>>, reflect_on_tool_use |-> FALSE,
     tool_call_summary_format |-> <<>>, memory |-> <<>>, is_running |-> FALSE]

NoArgs ==
    [tools |-> NoList, handoffs |-> NoList, function_calling |-> FALSE,
     model_context |-> <<>>]

-----------------------------------------------------------------------------
(* The locals of one on_messages_stream invocation. *)

Tasks == {"A"}

IdleTurn ==
    [pc |-> "idle", failure |-> "", messages |-> <<>>, context_before |-> <<>>,
     inner_messages |-> <<>>, yielded |-> <<>>, memory_i |-> 0,
     result |-> TextResult(<<>>), first_result |-> TextResult(<<>>),
     tool_call_msg |-> <<>>,
     call_state |-> <<>>, call_fate |-> <<>>, call_results |-> <<>>, done_order |-> <<>>,
     results |-> <<>>, create_calls |-> <<>>,
     updates |-> <<>>, returned_items |-> <<>>]

\* the caller has made no call yet; nothing is saved; the second agent is new
\* overlapped: an invocation has begun while another was in progress
NoCalls == [last |-> "", turns_done |-> 0, overlapped |-> FALSE]

\* AssistantAgentState(llm_context=...).model_dump(), with the state of an empty
\* context
NoBlob == [type |-> "AssistantAgentState", llm_context |-> [messages |-> <<>>]]

NothingSaved == [given |-> FALSE, blob |-> NoBlob, context |-> <<>>]

\* from_context remembers the context whose saved state was loaded
NewAgentContext == [model_context |-> <<>>, loaded |-> FALSE, from_context |-> <<>>]

Init ==
    /\ agent = NewAgent
    /\ init_args = NoArgs
    /\ model_context = <<>>
    /\ warned = <<>>
    /\ turn = [t \in Tasks |-> IdleTurn]
    /\ caller = NoCalls
    /\ saved_state = NothingSaved
    /\ new_agent = NewAgentContext

\* initial_context is the model_context argument: the messages of the context
\* given, <<>> for None (line 309, a new UnboundedChatCompletionContext)
Construct(tools, handoffs, function_calling, vision, reflect, format, n_memory, initial_context) ==
    /\ agent.state = "new"
    /\ init_args' = [tools |-> tools, handoffs |-> handoffs,
                     function_calling |-> function_calling,
                     model_context |-> initial_context]
    /\ LET outcome == InitOutcome(tools, handoffs, function_calling) IN
       IF outcome # "ok"
       THEN /\ agent' = [agent EXCEPT !.state = "error", !.error = outcome]
            /\ model_context' = model_context
       ELSE /\ model_context' = initial_context
            /\ agent' =
              [state |-> "ready", error |-> "",
               tools |-> tools.items,
               handoff_tools |-> NamesOf(handoffs.items),
               handoffs |-> HandoffDict(handoffs.items),
               vision |-> vision,
               system_messages |-> DefaultSystemMessages,
               reflect_on_tool_use |-> reflect,
               tool_call_summary_format |-> format,
               memory |-> [i \in 1..n_memory |-> i],
               is_running |-> FALSE]
    /\ UNCHANGED <<warned, turn, outside>>

-----------------------------------------------------------------------------
(* Events and responses yielded by the stream (autogen_agentchat.messages). *)

MemoryQueryEvent(content, source) ==
    [type |-> "MemoryQueryEvent", source |-> source, memories |-> content,
     calls |-> <<>>, results |-> <<>>]

ToolCallRequestEvent(content, source) ==
    [type |-> "ToolCallRequestEvent", source |-> source, memories |-> <<>>,
     calls |-> content, results |-> <<>>]

ToolCallExecutionEvent(content, source) ==
    [type |-> "ToolCallExecutionEvent", source |-> source, memories |-> <<>>,
     calls |-> <<>>, results |-> content]

TextMessage(content, source) ==
    [type |-> "TextMessage", content |-> content, source |-> source, target |-> ""]

HandoffMessage(content, target, source) ==
    [type |-> "HandoffMessage", content |-> content, source |-> source, target |-> target]

ToolCallSummaryMessage(content, source) ==
    [type |-> "ToolCallSummaryMessage", content |-> content, source |-> source, target |-> ""]

Response(chat_message, inner_messages) ==
    [type |-> "Response", chat_message |-> chat_message, inner_messages |-> inner_messages]

-----------------------------------------------------------------------------
(* on_messages_stream, lines 333-357: ingestion, memory, first inference. *)

\* The loop of lines 334-337 over the whole batch: the context it leaves, and
\* whether it raised.
AddMessages(context, messages, vision) ==
    LET bad == {i \in DOMAIN messages :
                    messages[i].type = "MultiModalMessage" /\ ~vision}
        stop == IF bad = {} THEN Len(messages) + 1 ELSE Min(bad)
    IN  [context |-> context \o
                     [j \in 1..(stop - 1) |->
                         UserMessage(messages[j].content, messages[j].source)],
         raised  |-> bad # {}]

\* lines 354-357 and 407-408: the call of model_client.create, recorded with the
\* messages and the tools passed
CreateCall(tr, context, tools) ==
    Append(tr.create_calls,
           [messages |-> agent.system_messages \o context, tools |-> tools])

Fail(t, why) == [turn EXCEPT ![t].pc = "failed", ![t].failure = why]

AfterMemoryInfersAtOnce(tr, i, context) ==
    [tr EXCEPT !.pc = "await_create", !.memory_i = i,
               !.create_calls =
                   CreateCall(tr, context, agent.tools \o agent.handoff_tools)]

\* The turn after the memory loop has dealt with provider i - 1: await the next
\* provider, or make the first inference call.
AfterMemory(tr, i, context) ==
    IF i <= Len(agent.memory)
    THEN [tr EXCEPT !.pc = "await_memory", !.memory_i = i,
                    !.updates = Append(@, agent.memory[i])]
    ELSE [tr EXCEPT !.pc = "await_create", !.memory_i = i,
                    !.create_calls =
                        CreateCall(tr, context, agent.tools \o agent.handoff_tools)]

\* an invocation other than t is between its first step and its end
OthersRunning(t) ==
    \E u \in DOMAIN turn \ {t} : turn[u].pc \notin {"idle", "done", "failed"}

OnMessagesStreamIfNotRunning(t, messages) ==
    /\ agent.state = "ready"
    /\ turn[t].pc = "idle"
    /\ ~OthersRunning(t)
    /\ LET added == AddMessages(model_context, messages, agent.vision)
           started == [IdleTurn EXCEPT !.messages = messages,
                                       !.context_before = model_context]
       IN  /\ model_context' = added.context
           /\ IF added.raised
              THEN turn' = [turn EXCEPT ![t] =
                              [started EXCEPT !.pc = "failed",
                                              !.failure = "ValueError: The model does not support vision."]]
              ELSE turn' = [turn EXCEPT ![t] = AfterMemory(started, 1, added.context)]
    /\ caller' = [caller EXCEPT !.last = "on_messages_stream"]
    /\ UNCHANGED <<agent, init_args, warned, saved_state, new_agent>>

\* lines 330-357, up to the first await that suspends: nothing is tested but
\* the messages
OnMessagesStream(t, messages) ==
    /\ agent.state = "ready"
    /\ turn[t].pc = "idle"
    /\ LET added == AddMessages(model_context, messages, agent.vision)
           started == [IdleTurn EXCEPT !.messages = messages,
                                       !.context_before = model_context]
       IN  /\ model_context' = added.context
           /\ IF added.raised
              THEN turn' = [turn EXCEPT ![t] =
                              [started EXCEPT !.pc = "failed",
                                              !.failure = "ValueError: The model does not support vision."]]
              ELSE turn' = [turn EXCEPT ![t] = AfterMemory(started, 1, added.context)]
    /\ caller' = [caller EXCEPT !.last = "on_messages_stream",
                                !.overlapped = @ \/ OthersRunning(t)]
    /\ UNCHANGED <<agent, init_args, warned, saved_state, new_agent>>

\* What memory.update_context can do: return nothing, a result without
\* memories, a result with memories (having added them to the context or not),
\* or raise.
MemoryOutcomes == {"none", "empty", "items", "items_added", "raise"}

MemoryContent(i) == <<"memory", i>>

\* len(update_context_result.memories.results) for an outcome that is a result
MemoryLen(outcome) == IF outcome \in {"items", "items_added"} THEN 1 ELSE 0

EmitsMemoryEventForAnyResult(outcome) == outcome # "none"

\* line 346: update_context_result and len(...) > 0
EmitsMemoryEvent(outcome) == outcome # "none" /\ MemoryLen(outcome) > 0

UpdateContextReturnsYieldsOnly(t, outcome) ==
    /\ turn[t].pc = "await_memory"
    /\ LET i == turn[t].memory_i
           context == IF outcome = "items_added"
                      THEN Append(model_context, SystemMessage(MemoryContent(i)))
                      ELSE model_context
       IN  /\ model_context' = context
           /\ IF outcome = "raise"
              THEN turn' = Fail(t, "memory")
              ELSE IF EmitsMemoryEvent(outcome)
              THEN LET ev == MemoryQueryEvent(MemoryContent(i), AgentName) IN
                   turn' = [turn EXCEPT
                              ![t].yielded = Append(@, ev),
                              ![t].returned_items = Append(@, MemoryLen(outcome) > 0),
                              ![t].pc = "yield_memory"]
              ELSE turn' = [turn EXCEPT ![t] =
                              AfterMemory([@ EXCEPT !.returned_items =
                                                      Append(@, MemoryLen(outcome) > 0)],
                                          i + 1, context)]
    /\ UNCHANGED <<agent, init_args, warned, outside>>

\* lines 345-351: update_context returns (or raises); a result with memories is
\* yielded as an event
UpdateContextReturns(t, outcome) ==
    /\ turn[t].pc = "await_memory"
    /\ LET i == turn[t].memory_i
           context == IF outcome = "items_added"
                      THEN Append(model_context, SystemMessage(MemoryContent(i)))
                      ELSE model_context
       IN  /\ model_context' = context
           /\ IF outcome = "raise"
              THEN turn' = Fail(t, "memory")
              ELSE IF EmitsMemoryEvent(outcome)
              THEN LET ev == MemoryQueryEvent(MemoryContent(i), AgentName) IN
                   turn' = [turn EXCEPT
                              ![t].inner_messages = Append(@, ev),
                              ![t].yielded = Append(@, ev),
                              ![t].returned_items = Append(@, MemoryLen(outcome) > 0),
                              ![t].pc = "yield_memory"]
              ELSE turn' = [turn EXCEPT ![t] =
                              AfterMemory([@ EXCEPT !.returned_items =
                                                      Append(@, MemoryLen(outcome) > 0)],
                                          i + 1, context)]
    /\ UNCHANGED <<agent, init_args, warned, outside>>

\* the consumer takes the memory event; the loop of line 344 goes on
ResumeAfterMemoryEvent(t) ==
    /\ turn[t].pc = "yield_memory"
    /\ turn' = [turn EXCEPT ![t] = AfterMemory(@, turn[t].memory_i + 1, model_context)]
    /\ UNCHANGED <<agent, init_args, model_context, warned, outside>>

IsStrNever(result) == FALSE

\* line 363: isinstance(result.content, str)
IsStr(result) == result.kind = "text"

CreateReturnsYieldsOnly(t, result) ==
    /\ turn[t].pc = "await_create"
    /\ IF IsStr(result)
       THEN turn' = [turn EXCEPT
                ![t].result = result,
                ![t].first_result = result,
                ![t].yielded = Append(@, Response(TextMessage(result.text, AgentName),
                                                  turn[t].inner_messages)),
                ![t].pc = "yield_response"]
       ELSE LET tool_call_msg == ToolCallRequestEvent(result.calls, AgentName) IN
            turn' = [turn EXCEPT
                ![t].result = result,
                ![t].first_result = result,
                ![t].tool_call_msg = tool_call_msg.calls,
                ![t].inner_messages = Append(@, tool_call_msg),
                ![t].yielded = Append(@, tool_call_msg),
                ![t].pc = "yield_tool_call"]
    /\ UNCHANGED <<agent, init_args, model_context, warned, outside>>

\* lines 355-376: create returns; the result goes to the context; text ends the
\* turn, tool calls are announced
CreateReturns(t, result) ==
    /\ turn[t].pc = "await_create"
    /\ model_context' = Append(model_context, AssistantMessage(result, AgentName))
    /\ IF IsStr(result)
       THEN turn' = [turn EXCEPT
                ![t].result = result,
                ![t].first_result = result,
                ![t].yielded = Append(@, Response(TextMessage(result.text, AgentName),
                                                  turn[t].inner_messages)),
                ![t].pc = "yield_response"]
       ELSE LET tool_call_msg == ToolCallRequestEvent(result.calls, AgentName) IN
            turn' = [turn EXCEPT
                ![t].result = result,
                ![t].first_result = result,
                ![t].tool_call_msg = tool_call_msg.calls,
                ![t].inner_messages = Append(@, tool_call_msg),
                ![t].yielded = Append(@, tool_call_msg),
                ![t].pc = "yield_tool_call"]
    /\ UNCHANGED <<agent, init_args, warned, outside>>

CreateRaisesAndIsRetried(t) ==
    /\ turn[t].pc \in {"await_create", "await_reflect"}
    /\ turn' = [turn EXCEPT ![t].create_calls = Append(@, LastOf(@))]
    /\ UNCHANGED <<agent, init_args, model_context, warned, outside>>

\* model_client.create raises (either inference): nothing catches it
CreateRaises(t) ==
    /\ turn[t].pc \in {"await_create", "await_reflect"}
    /\ turn' = Fail(t, "model")
    /\ UNCHANGED <<agent, init_args, model_context, warned, outside>>

-----------------------------------------------------------------------------
(* _execute_tool_call, lines 434-449, and the gather of line 379. *)

Registry == agent.tools \o agent.handoff_tools

ErrorResult(detail, tool_call) ==
    FunctionExecutionResult(<<"Error: ">> \o detail, tool_call.id)

NoResult == FunctionExecutionResult(<<>>, <<>>)

\* lines 439-444, up to the await of tool.run_json: the error raised (and caught
\* at line 448), or <<>> when the tool is found and its arguments parse
LookupError(registry, tool_call) ==
    IF registry = <<>>
    THEN <<"No tools are available.">>
    ELSE IF tool_call.name \notin SeqToSet(registry)
    THEN <<"The tool '", tool_call.name, "' is not available.">>
    ELSE IF JsonLoadsFails(tool_call.arguments)
    THEN <<"Expecting property name enclosed in double quotes">>
    ELSE <<>>

\* what tool.run_json can do once awaited: return a value, raise an Exception,
\* or end in a CancelledError (a BaseException, which line 448 does not catch)
RunOutcomes == {"return", "raise", "cancel"}

\* the values the tool of this name can return: a handoff tool returns its
\* handoff's message
ReturnValues(name) ==
    IF name \in DOMAIN agent.handoffs
    THEN {agent.handoffs[name].message}
    ELSE {<<v>> : v \in ToolValues}

CaughtNothing(outcome) == FALSE

\* line 448: which outcomes of the awaited run are caught and turned into a result
CaughtByExecute(outcome) == outcome = "raise"

GatherInCompletionOrder(call_results, done_order) ==
    [k \in DOMAIN done_order |-> call_results[done_order[k]]]

\* asyncio.gather: the results in the order of the awaitables
GatherResults(call_results, done_order) == call_results

\* the consumer takes the request event; line 379 creates one task per call
StartGather(t) ==
    /\ turn[t].pc = "yield_tool_call"
    /\ turn' = [turn EXCEPT
            ![t].pc = "await_gather",
            ![t].call_state = [i \in DOMAIN turn[t].result.calls |-> "pending"],
            ![t].call_fate = [i \in DOMAIN turn[t].result.calls |-> ""],
            ![t].call_results = [i \in DOMAIN turn[t].result.calls |-> NoResult],
            ![t].done_order = <<>>]
    /\ UNCHANGED <<agent, init_args, model_context, warned, outside>>

\* a task's first step: the tasks start in the order gather created them
ExecuteToolCallStart(t) ==
    /\ turn[t].pc = "await_gather"
    /\ \E i \in DOMAIN turn[t].call_state :
        /\ turn[t].call_state[i] = "pending"
        /\ \A j \in 1..(i - 1) : turn[t].call_state[j] # "pending"
        /\ LET tool_call == turn[t].result.calls[i]
               err == LookupError(Registry, tool_call)
           IN  IF err # <<>>
               THEN turn' = [turn EXCEPT
                        ![t].call_state[i] = "done",
                        ![t].call_fate[i] = "lookup failed",
                        ![t].call_results[i] = ErrorResult(err, tool_call),
                        ![t].done_order = Append(@, i)]
               ELSE turn' = [turn EXCEPT ![t].call_state[i] = "running"]
    /\ UNCHANGED <<agent, init_args, model_context, warned, outside>>

\* the awaited tool.run_json of call i ends, in any order among the running calls
ToolRunEnds(t, i, outcome, value) ==
    /\ turn[t].pc = "await_gather"
    /\ i \in DOMAIN turn[t].call_state
    /\ turn[t].call_state[i] = "running"
    /\ LET tool_call == turn[t].result.calls[i] IN
       /\ value \in ReturnValues(tool_call.name)
       /\ IF outcome = "return"
          THEN turn' = [turn EXCEPT
                  ![t].call_state[i] = "done",
                  ![t].call_fate[i] = "returned",
                  ![t].call_results[i] = FunctionExecutionResult(value, tool_call.id),
                  ![t].done_order = Append(@, i)]
          ELSE IF CaughtByExecute(outcome)
          THEN turn' = [turn EXCEPT
                  ![t].call_state[i] = "done",
                  ![t].call_fate[i] = "raised",
                  ![t].call_results[i] = ErrorResult(<<"tool failed">>, tool_call),
                  ![t].done_order = Append(@, i)]
          ELSE turn' = Fail(t, IF outcome = "cancel" THEN "CancelledError" ELSE "Exception")
    /\ UNCHANGED <<agent, init_args, model_context, warned, outside>>

GatherReturnsNoAppend(t) ==
    /\ turn[t].pc = "await_gather"
    /\ \A i \in DOMAIN turn[t].call_state : turn[t].call_state[i] = "done"
    /\ LET results == GatherResults(turn[t].call_results, turn[t].done_order)
           tool_call_result_msg == ToolCallExecutionEvent(results, AgentName)
       IN  turn' = [turn EXCEPT
                 ![t].results = results,
                 ![t].inner_messages = Append(@, tool_call_result_msg),
                 ![t].yielded = Append(@, tool_call_result_msg),
                 ![t].pc = "yield_tool_result"]
    /\ UNCHANGED <<agent, init_args, model_context, warned, outside>>

GatherReturnsOneMessagePerCall(t) ==
    /\ turn[t].pc = "await_gather"
    /\ \A i \in DOMAIN turn[t].call_state : turn[t].call_state[i] = "done"
    /\ LET results == GatherResults(turn[t].call_results, turn[t].done_order)
           tool_call_result_msg == ToolCallExecutionEvent(results, AgentName)
       IN  /\ model_context' =
                 model_context \o
                 [i \in DOMAIN results |-> FunctionExecutionResultMessage(<<results[i]>>)]
           /\ turn' = [turn EXCEPT
                 ![t].results = results,
                 ![t].inner_messages = Append(@, tool_call_result_msg),
                 ![t].yielded = Append(@, tool_call_result_msg),
                 ![t].pc = "yield_tool_result"]
    /\ UNCHANGED <<agent, init_args, warned, outside>>

\* lines 379-384: every task is done; the results go to the context and are
\* yielded
GatherReturns(t) ==
    /\ turn[t].pc = "await_gather"
    /\ \A i \in DOMAIN turn[t].call_state : turn[t].call_state[i] = "done"
    /\ LET results == GatherResults(turn[t].call_results, turn[t].done_order)
           tool_call_result_msg == ToolCallExecutionEvent(results, AgentName)
       IN  /\ model_context' =
                 Append(model_context, FunctionExecutionResultMessage(results))
           /\ turn' = [turn EXCEPT
                 ![t].results = results,
                 ![t].inner_messages = Append(@, tool_call_result_msg),
                 ![t].yielded = Append(@, tool_call_result_msg),
                 ![t].pc = "yield_tool_result"]
    /\ UNCHANGED <<agent, init_args, warned, outside>>

-----------------------------------------------------------------------------
(* lines 386-432: handoff, reflection, summary. *)

DetectHandoffsOfParsedCalls(calls, handoffs) ==
    LET hits == SelectSeq([i \in DOMAIN calls |-> i],
                          LAMBDA i : /\ calls[i].name \in DOMAIN handoffs
                                     /\ ~JsonLoadsFails(calls[i].arguments))
    IN  [k \in DOMAIN hits |-> handoffs[calls[hits[k]].name]]

\* lines 387-390: the handoffs the calls name, in the order of the calls
DetectHandoffs(calls, handoffs) ==
    LET hits == SelectSeq([i \in DOMAIN calls |-> i],
                          LAMBDA i : calls[i].name \in DOMAIN handoffs)
    IN  [k \in DOMAIN hits |-> handoffs[calls[hits[k]].name]]

LastHandoff(handoffs) == handoffs[Len(handoffs)]

\* line 400: the handoff taken
ChosenHandoff(handoffs) == handoffs[1]

\* str.format of the summary template with tool_name, arguments and result
FormatSummary(format, tool_name, arguments, result) ==
    Flatten([k \in DOMAIN format |->
                IF format[k] = "{tool_name}" THEN <<tool_name>>
                ELSE IF format[k] = "{arguments}" THEN <<arguments>>
                ELSE IF format[k] = "{result}" THEN result
                ELSE <<format[k]>>])

ToolCallSummaryNoNewline(format, calls, results) ==
    Flatten([i \in DOMAIN calls |->
                FormatSummary(format, calls[i].name, calls[i].arguments, results[i].content)])

\* lines 419-428
ToolCallSummary(format, calls, results) ==
    Join([i \in DOMAIN calls |->
             FormatSummary(format, calls[i].name, calls[i].arguments, results[i].content)],
         "\n")

ReturnHandoff(t) ==
    /\ turn[t].pc = "yield_tool_result"
    /\ LET handoffs == DetectHandoffs(turn[t].result.calls, agent.handoffs) IN
       /\ Len(handoffs) > 0
       /\ warned' = IF Len(handoffs) > 1
                    THEN Append(warned, <<"Multiple handoffs detected only the first is executed: ">>
                                        \o NamesOf(handoffs))
                    ELSE warned
       /\ turn' = [turn EXCEPT
             ![t].yielded = Append(@,
                 Response(HandoffMessage(ChosenHandoff(handoffs).message,
                                         ChosenHandoff(handoffs).target, AgentName),
                          turn[t].inner_messages)),
             ![t].done_order = <<>>,
             ![t].pc = "yield_response"]
    /\ UNCHANGED <<agent, init_args, model_context, outside>>

ReflectionToolsAsFirst == agent.tools \o agent.handoff_tools

\* line 408: create is called without a tools argument
ReflectionTools == <<>>

\* lines 405-408: the second inference call, with no tools
StartReflection(t) ==
    /\ turn[t].pc = "yield_tool_result"
    /\ Len(DetectHandoffs(turn[t].result.calls, agent.handoffs)) = 0
    /\ agent.reflect_on_tool_use
    /\ turn' = [turn EXCEPT
          ![t].create_calls = CreateCall(turn[t], model_context, ReflectionTools),
          ![t].done_order = <<>>,
          ![t].pc = "await_reflect"]
    /\ UNCHANGED <<agent, init_args, model_context, warned, outside>>

ReflectionReturnsAddsThenAsserts(t, result) ==
    /\ turn[t].pc = "await_reflect"
    /\ model_context' = Append(model_context, AssistantMessage(result, AgentName))
    /\ IF result.kind = "text"
       THEN turn' = [turn EXCEPT
                  ![t].result = result,
                  ![t].yielded = Append(@, Response(TextMessage(result.text, AgentName),
                                                    turn[t].inner_messages)),
                  ![t].pc = "yield_response"]
       ELSE turn' = Fail(t, "AssertionError")
    /\ UNCHANGED <<agent, init_args, warned, outside>>

\* lines 408-416: the second create returns; a result that is not text fails the
\* assertion of line 409
ReflectionReturns(t, result) ==
    /\ turn[t].pc = "await_reflect"
    /\ IF result.kind = "text"
       THEN /\ model_context' = Append(model_context, AssistantMessage(result, AgentName))
            /\ turn' = [turn EXCEPT
                  ![t].result = result,
                  ![t].yielded = Append(@, Response(TextMessage(result.text, AgentName),
                                                    turn[t].inner_messages)),
                  ![t].pc = "yield_response"]
       ELSE /\ model_context' = model_context
            /\ turn' = Fail(t, "AssertionError")
    /\ UNCHANGED <<agent, init_args, warned, outside>>

ReturnSummaryAddsToContext(t) ==
    /\ turn[t].pc = "yield_tool_result"
    /\ Len(DetectHandoffs(turn[t].result.calls, agent.handoffs)) = 0
    /\ ~agent.reflect_on_tool_use
    /\ LET tool_call_summary ==
               ToolCallSummary(agent.tool_call_summary_format,
                               turn[t].tool_call_msg, turn[t].results)
       IN  /\ model_context' =
                 Append(model_context,
                        AssistantMessage(TextResult(tool_call_summary), AgentName))
           /\ turn' = [turn EXCEPT
                 ![t].yielded = Append(@,
                     Response(ToolCallSummaryMessage(tool_call_summary, AgentName),
                              turn[t].inner_messages)),
                 ![t].done_order = <<>>,
                 ![t].pc = "yield_response"]
    /\ UNCHANGED <<agent, init_args, warned, outside>>

\* lines 418-432
ReturnSummary(t) ==
    /\ turn[t].pc = "yield_tool_result"
    /\ Len(DetectHandoffs(turn[t].result.calls, agent.handoffs)) = 0
    /\ ~agent.reflect_on_tool_use
    /\ turn' = [turn EXCEPT
          ![t].yielded = Append(@,
              Response(ToolCallSummaryMessage(
                           ToolCallSummary(agent.tool_call_summary_format,
                                           turn[t].tool_call_msg, turn[t].results),
                           AgentName),
                       turn[t].inner_messages)),
          ![t].done_order = <<>>,
          ![t].pc = "yield_response"]
    /\ UNCHANGED <<agent, init_args, model_context, warned, outside>>

FinishReenters(t) ==
    /\ turn[t].pc = "yield_response"
    /\ turn' = [turn EXCEPT ![t].pc = IF turn[t].first_result.kind = "calls"
                                      THEN "yield_tool_result" ELSE "done"]
    /\ UNCHANGED <<agent, init_args, model_context, warned, outside>>

\* the consumer takes the Response; the generator runs to its end (the return
\* of lines 368 and 403, the end of the function after lines 413 and 429)
Finish(t) ==
    /\ turn[t].pc = "yield_response"
    /\ turn' = [turn EXCEPT ![t].pc = "done"]
    /\ UNCHANGED <<agent, init_args, model_context, warned, outside>>

\* on_messages, lines 324-328: the first Response of the stream
OnMessages(yielded) ==
    LET hits == {i \in DOMAIN yielded : yielded[i].type = "Response"}
    IN  IF hits = {} THEN <<>> ELSE <<yielded[Min(hits)]>>

Batches == BoundedSeq(ChatMessagesIn, MaxBatch)

Turn(t) ==
    \/ \E messages \in Batches : OnMessagesStream(t, messages)
    \/ \E outcome \in MemoryOutcomes : UpdateContextReturns(t, outcome)
    \/ ResumeAfterMemoryEvent(t)
    \/ \E result \in CreateResults : CreateReturns(t, result)
    \/ CreateRaises(t)
    \/ StartGather(t)
    \/ ExecuteToolCallStart(t)
    \/ \E i \in 1..MaxCalls, outcome \in RunOutcomes, value \in {<<v>> : v \in ToolValues} \cup {h.message : h \in HandoffPool} :
          ToolRunEnds(t, i, outcome, value)
    \/ GatherReturns(t)
    \/ ReturnHandoff(t)
    \/ StartReflection(t)
    \/ \E result \in CreateResults : ReflectionReturns(t, result)
    \/ ReturnSummary(t)
    \/ Finish(t)

\* The agents the turns are explored for.  The summary format is read only
\* without reflection (line 422) and the vision flag only at ingestion (line
\* 335), so the formats are varied without reflection, and a model with vision
\* has one tool and nothing else.
Configs ==
    { c \in [tools : {SomeList(x) : x \in BoundedSeq({"get_time"}, 1)},
             handoffs : {SomeList(x) : x \in BoundedSeq(HandoffPool, MaxHandoffs)},
             vision : BOOLEAN, reflect : BOOLEAN, format : SummaryFormats,
             n_memory : 0..MaxMemory] :
        /\ c.reflect => c.format = <<"{result}">>
        /\ c.vision => /\ c.tools.items = <<"get_time">>
                       /\ c.handoffs.items = <<>>
                       /\ ~c.reflect
                       /\ c.n_memory = 0 }

Next ==
    \/ \E c \in Configs :
           Construct(c.tools, c.handoffs, TRUE, c.vision, c.reflect, c.format, c.n_memory,
                     <<>>)
    \/ Turn("A")

Spec == Init /\ [][Next]_vars

\* Construction alone, over every combination of arguments.
NextInit ==
    \E tools \in ToolsArgs, handoffs \in HandoffsArgs, fc \in BOOLEAN, vision \in BOOLEAN,
       reflect \in BOOLEAN, format \in SummaryFormats, n \in 0..MaxMemory :
        Construct(tools, handoffs, fc, vision, reflect, format, n, <<>>)

SpecInit == Init /\ [][NextInit]_vars

-----------------------------------------------------------------------------
(* Between turns: the calls a caller makes one at a time (on_reset, save_state,
   load_state, the next on_messages_stream), and the model context's own
   operations, which the agent delegates to. *)

MaxTurns == 2

\* ChatCompletionContext.clear()
ContextClear(context) == <<>>

\* a message as it is written in a saved state, and read back
DumpMessage(m) == <<m.type, m.content, m.source, m.calls, m.results>>

LoadMessage(d) ==
    [type |-> d[1], content |-> d[2], source |-> d[3], calls |-> d[4], results |-> d[5]]

\* ChatCompletionContext.save_state() and load_state(state)
ContextSaveState(context) ==
    [messages |-> [i \in DOMAIN context |-> DumpMessage(context[i])]]

ContextLoadState(state) ==
    [i \in DOMAIN state.messages |-> LoadMessage(state.messages[i])]

\* no on_messages_stream invocation is between its first step and its end
NotRunning == \A t \in Tasks : turn[t].pc \in {"idle", "done", "failed"}

\* the caller is through with the stream of a turn: the generator and its locals
\* are gone, and the next turn can be asked for
TurnOver(t) ==
    /\ turn[t].pc \in {"done", "failed"}
    /\ caller.turns_done + 1 < MaxTurns
    /\ turn' = [turn EXCEPT ![t] = IdleTurn]
    /\ caller' = [caller EXCEPT !.turns_done = @ + 1]
    /\ UNCHANGED <<agent, init_args, model_context, warned, saved_state, new_agent>>

OnResetToInitial ==
    /\ agent.state = "ready"
    /\ NotRunning
    /\ model_context' = init_args.model_context
    /\ caller' = [caller EXCEPT !.last = "on_reset"]
    /\ UNCHANGED <<agent, init_args, warned, turn, saved_state, new_agent>>

\* lines 451-453
OnReset ==
    /\ agent.state = "ready"
    /\ NotRunning
    /\ model_context' = ContextClear(model_context)
    /\ caller' = [caller EXCEPT !.last = "on_reset"]
    /\ UNCHANGED <<agent, init_args, warned, turn, saved_state, new_agent>>

SaveStateDefault ==
    /\ agent.state = "ready"
    /\ NotRunning
    /\ saved_state' = [given |-> TRUE, blob |-> NoBlob, context |-> model_context]
    /\ caller' = [caller EXCEPT !.last = "save_state"]
    /\ UNCHANGED <<agent, init_args, model_context, warned, turn, new_agent>>

\* lines 455-458; saved_state.context remembers the context the state was taken
\* from
SaveState ==
    /\ agent.state = "ready"
    /\ NotRunning
    /\ LET model_context_state == ContextSaveState(model_context) IN
       saved_state' =
          [given |-> TRUE,
           blob |-> [type |-> "AssistantAgentState", llm_context |-> model_context_state],
           context |-> model_context]
    /\ caller' = [caller EXCEPT !.last = "save_state"]
    /\ UNCHANGED <<agent, init_args, model_context, warned, turn, new_agent>>

\* lines 460-464, called with the mapping save_state returned, on the second
\* agent ("new") or on the agent itself ("self")
LoadState(target) ==
    /\ agent.state = "ready"
    /\ saved_state.given
    /\ LET assistant_agent_state == saved_state.blob
           loaded == ContextLoadState(assistant_agent_state.llm_context)
       IN  IF target = "new"
           THEN /\ new_agent' = [model_context |-> loaded, loaded |-> TRUE,
                                 from_context |-> saved_state.context]
                /\ UNCHANGED <<model_context, caller>>
           ELSE /\ NotRunning
                /\ model_context' = loaded
                /\ caller' = [caller EXCEPT !.last = "load_state"]
                /\ UNCHANGED new_agent
    /\ UNCHANGED <<agent, init_args, warned, turn, saved_state>>

\* The agents and the inputs the sequences of turns are explored for: one tool,
\* at most one handoff, a preloaded context or none, and per turn a text, one
\* tool call or one handoff call.
InitialContexts == {<<>>, <<UserMessage(<<"earlier">>, "user")>>}

SeqConfigs ==
    [tools : {SomeList(<<"get_time">>)},
     handoffs : {SomeList(<<>>), SomeList(<<CHOOSE h \in HandoffPool : h.target = "a">>)},
     reflect : BOOLEAN, n_memory : 0..MaxMemory, initial : InitialContexts]

SeqBatches == {<<TextMessageIn>>, <<TextMessageIn, MultiModalMessageIn>>}

SeqMemoryOutcomes == {"none", "items_added", "raise"}

SeqResults ==
    {TextResult(<<"Paris">>)} \cup
    {CallsResult(<<FunctionCall(CallId(1), n, "{}")>>) : n \in {"get_time", "transfer_to_a"}}

\* the steps of a turn, with its inputs drawn from the sets given
TurnWith(t, batches, outcomes, results) ==
    \/ \E messages \in batches : OnMessagesStream(t, messages)
    \/ \E outcome \in outcomes : UpdateContextReturns(t, outcome)
    \/ ResumeAfterMemoryEvent(t)
    \/ \E result \in results : CreateReturns(t, result)
    \/ CreateRaises(t)
    \/ StartGather(t)
    \/ ExecuteToolCallStart(t)
    \/ \E i \in 1..MaxCalls, outcome \in RunOutcomes, value \in {<<v>> : v \in ToolValues} \cup {h.message : h \in HandoffPool} :
          ToolRunEnds(t, i, outcome, value)
    \/ GatherReturns(t)
    \/ ReturnHandoff(t)
    \/ StartReflection(t)
    \/ \E result \in results : ReflectionReturns(t, result)
    \/ ReturnSummary(t)
    \/ Finish(t)

SeqTurn(t) == TurnWith(t, SeqBatches, SeqMemoryOutcomes, SeqResults)

NextSeq ==
    \/ \E c \in SeqConfigs :
           Construct(c.tools, c.handoffs, TRUE, FALSE, c.reflect, <<"{result}">>,
                     c.n_memory, c.initial)
    \/ SeqTurn("A")
    \/ TurnOver("A")
    \/ OnReset
    \/ SaveState
    \/ \E target \in {"new", "self"} : LoadState(target)

SpecSeq == Init /\ [][NextSeq]_vars

\* One turn of an agent with up to MaxProviders memory providers.
MaxProviders == 2

MemoryConfigs ==
    [tools : {SomeList(<<"get_time">>)},
     handoffs : {SomeList(<<>>), SomeList(<<CHOOSE h \in HandoffPool : h.target = "a">>)},
     reflect : BOOLEAN, n_memory : 0..MaxProviders]

NextMemory ==
    \/ \E c \in MemoryConfigs :
           Construct(c.tools, c.handoffs, TRUE, FALSE, c.reflect, <<"{result}">>,
                     c.n_memory, <<>>)
    \/ TurnWith("A", Batches, MemoryOutcomes, SeqResults)

SpecMemory == Init /\ [][NextMemory]_vars

\* Two invocations of on_messages_stream on one agent, their steps interleaved
\* at the suspension points in every way.
BothTasks == {"A", "B"}

InitConcurrent ==
    /\ agent = NewAgent
    /\ init_args = NoArgs
    /\ model_context = <<>>
    /\ warned = <<>>
    /\ turn = [t \in BothTasks |-> IdleTurn]
    /\ caller = NoCalls
    /\ saved_state = NothingSaved
    /\ new_agent = NewAgentContext

ConcurrentConfigs ==
    {c \in [tools : {SomeList(<<"get_time">>)},
            handoffs : {SomeList(<<>>), SomeList(<<CHOOSE h \in HandoffPool : h.target = "a">>)},
            reflect : BOOLEAN, n_memory : 0..MaxMemory] :
        \/ c.handoffs = SomeList(<<>>) /\ ~c.reflect /\ c.n_memory = MaxMemory
        \/ c.handoffs # SomeList(<<>>) /\ ~c.reflect /\ c.n_memory = 0
        \/ c.handoffs = SomeList(<<>>) /\ c.reflect /\ c.n_memory = 0}

ConcurrentBatches == {<<TextMessageIn>>}

ConcurrentTurn(t) == TurnWith(t, ConcurrentBatches, SeqMemoryOutcomes, SeqResults)

NextConcurrent ==
    \/ \E c \in ConcurrentConfigs :
           Construct(c.tools, c.handoffs, TRUE, FALSE, c.reflect, <<"{result}">>,
                     c.n_memory, <<>>)
    \/ \E t \in BothTasks : ConcurrentTurn(t)

SpecConcurrent == InitConcurrent /\ [][NextConcurrent]_vars

-----------------------------------------------------------------------------
(* The claims. *)

ResponsesOf(y) == {i \in DOMAIN y : y[i].type = "Response"}

Terminal(t) == turn[t].pc \in {"yield_response", "done"}

PastGather(t) ==
    \E i \in DOMAIN turn[t].yielded : turn[t].yielded[i].type = "ToolCallExecutionEvent"

\* the requests of the turn that name a registered handoff, in request order
MatchedCalls(t) ==
    SelectSeq(turn[t].first_result.calls,
              LAMBDA c : c.name \in SeqToSet(agent.handoff_tools))

\* C1: a turn yields at most one Response, nothing follows a Response, a turn
\* yields a Response exactly when it has reached a terminal branch (direct
\* text, handoff, reflective text or tool summary), and on_messages returns
\* that Response.
C1_OneResponseLast ==
    \A t \in Tasks :
        LET y == turn[t].yielded
            R == ResponsesOf(y)
        IN  /\ Cardinality(R) <= 1
            /\ \A i \in R : i = Len(y)
            /\ R # {} <=> Terminal(t)
            /\ Terminal(t) => OnMessages(y) = <<LastOf(y)>>
            /\ turn[t].pc = "done" => Cardinality(R) = 1

C1_Witness ==
    /\ turn["A"].pc = "done"
    /\ Len(turn["A"].yielded) = 4
    /\ LastOf(turn["A"].yielded).type = "Response"

\* C2: when the first inference returns plain text, the turn yields exactly one
\* Response, a TextMessage with that text unchanged; no tool-call request or
\* result event is yielded, no tool call is executed, and create is called
\* exactly once.
C2_TextTurn ==
    \A t \in Tasks :
        (Terminal(t) /\ turn[t].first_result.kind = "text") =>
            LET y == turn[t].yielded IN
            /\ Cardinality(ResponsesOf(y)) = 1
            /\ turn[t].first_result.text \in Texts
            /\ LastOf(y).chat_message = TextMessage(turn[t].first_result.text, AgentName)
            /\ \A i \in DOMAIN y :
                  y[i].type \notin {"ToolCallRequestEvent", "ToolCallExecutionEvent"}
            /\ turn[t].call_state = <<>>
            /\ turn[t].results = <<>>
            /\ Len(turn[t].create_calls) = 1

C2_Witness ==
    /\ turn["A"].pc = "done"
    /\ turn["A"].first_result = TextResult(<<"Paris">>)
    /\ LastOf(turn["A"].yielded).chat_message.content = <<"Paris">>

\* C3: once the tool calls have been gathered there are as many results as
\* requests and result i carries the id of request i, whatever the order in
\* which the calls completed; and while any call is incomplete the turn is
\* still at the gather (or has failed).
C3_ResultsInRequestOrder ==
    \A t \in Tasks :
        LET calls == turn[t].first_result.calls IN
        /\ PastGather(t) =>
              /\ Len(turn[t].results) = Len(calls)
              /\ \A i \in DOMAIN calls : turn[t].results[i].call_id = calls[i].id
              /\ \A i \in DOMAIN calls : turn[t].call_state[i] = "done"
        /\ (\E i \in DOMAIN turn[t].call_state : turn[t].call_state[i] # "done")
              => turn[t].pc \in {"await_gather", "failed"}

C3_Witness ==
    /\ turn["A"].pc = "yield_tool_result"
    /\ turn["A"].done_order = <<2, 1>>
    /\ turn["A"].call_fate = <<"returned", "returned">>
    /\ Len(turn["A"].results) = 2

\* C4: a tool call that fails (empty registry, unknown name, arguments that do
\* not parse, the tool raising an Exception) ends with a result whose content
\* begins with "Error: " and carries the call's id; a call that returns has the
\* returned value as its result whatever the other calls did; no turn fails with
\* a tool's Exception; a turn past the gather fails only at the reflective
\* inference; it can always go on; and when it is done it has yielded one
\* Response, a summary, a text or a handoff.
C4_ToolFailureContained ==
    \A t \in Tasks :
        LET calls == turn[t].first_result.calls
            y == turn[t].yielded
        IN
        /\ \A i \in DOMAIN turn[t].call_state :
              turn[t].call_state[i] = "done" =>
                 LET r == turn[t].call_results[i] IN
                 /\ r.call_id = calls[i].id
                 /\ (\/ Registry = <<>>
                     \/ calls[i].name \notin SeqToSet(Registry)
                     \/ JsonLoadsFails(calls[i].arguments)
                     \/ turn[t].call_fate[i] = "raised")
                       => Head(r.content) = "Error: "
                 /\ turn[t].call_fate[i] = "returned" =>
                       /\ r.content \in ReturnValues(calls[i].name)
                       /\ Head(r.content) # "Error: "
        /\ PastGather(t) => turn[t].results = turn[t].call_results
        /\ turn[t].failure # "Exception"
        /\ (turn[t].pc = "failed" /\ PastGather(t))
              => turn[t].failure \in {"model", "AssertionError"}
        /\ turn[t].pc \in {"await_gather", "yield_tool_result", "yield_response"}
              => ENABLED Turn(t)
        /\ (turn[t].pc = "done" /\ turn[t].first_result.kind = "calls") =>
              /\ Cardinality(ResponsesOf(y)) = 1
              /\ LastOf(y).chat_message.type \in
                    {"ToolCallSummaryMessage", "TextMessage", "HandoffMessage"}

C4_Witness ==
    /\ turn["A"].pc = "done"
    /\ turn["A"].call_fate = <<"raised", "returned">>
    /\ LastOf(turn["A"].yielded).chat_message.type = "ToolCallSummaryMessage"
    /\ Head(turn["A"].results[1].content) = "Error: "
    /\ turn["A"].results[2].content = <<"12:00">>

\* C5: when two or more requests name registered handoffs, the one Response is
\* a HandoffMessage with the target and message of the first such request, and
\* one warning naming all of them, in request order, has been emitted; with
\* fewer than two there is no warning.
C5_FirstHandoffOnly ==
    \A t \in Tasks :
        (Terminal(t) /\ turn[t].first_result.kind = "calls") =>
            LET m == MatchedCalls(t)
                y == turn[t].yielded
            IN
            /\ Len(m) >= 2 =>
                  LET h == CHOOSE h \in SeqToSet(init_args.handoffs.items) :
                                h.name = m[1].name
                  IN  /\ Cardinality(ResponsesOf(y)) = 1
                      /\ LastOf(y).chat_message =
                            HandoffMessage(h.message, h.target, AgentName)
                      /\ warned =
                            << <<"Multiple handoffs detected only the first is executed: ">>
                               \o [k \in DOMAIN m |-> m[k].name] >>
            /\ Len(m) < 2 => warned = <<>>

C5_Witness ==
    /\ turn["A"].pc = "done"
    /\ agent.handoff_tools = <<"transfer_to_a", "transfer_to_b">>
    /\ Len(turn["A"].first_result.calls) = 2
    /\ turn["A"].first_result.calls[1].name = "transfer_to_b"
    /\ turn["A"].first_result.calls[2].name = "transfer_to_a"
    /\ LastOf(turn["A"].yielded).chat_message.target = "b"
    /\ Len(warned) = 1

\* C6: when a turn yields a handoff Response, every requested call has been
\* executed, the context ends with the Assistant message of the requests and
\* then the one message of their results, create has been called once and
\* nothing else has been yielded as a Response, whether reflection is enabled
\* or not.
C6_HandoffAfterTools ==
    \A t \in Tasks :
        LET y == turn[t].yielded
            calls == turn[t].first_result.calls
        IN
        (ResponsesOf(y) # {} /\ LastOf(y).chat_message.type = "HandoffMessage") =>
            /\ \A i \in DOMAIN calls :
                  /\ turn[t].call_state[i] = "done"
                  /\ turn[t].call_fate[i] \in {"lookup failed", "raised", "returned"}
            /\ Len(turn[t].results) = Len(calls)
            /\ Len(model_context) >= 2
            /\ LastOf(model_context) = FunctionExecutionResultMessage(turn[t].results)
            /\ model_context[Len(model_context) - 1] =
                  AssistantMessage(turn[t].first_result, AgentName)
            /\ Len(turn[t].create_calls) = 1
            /\ Cardinality(ResponsesOf(y)) = 1

C6_Witness ==
    /\ turn["A"].pc = "yield_response"
    /\ agent.reflect_on_tool_use
    /\ LastOf(turn["A"].yielded).chat_message.type = "HandoffMessage"
    /\ Len(turn["A"].first_result.calls) = 2
    /\ turn["A"].first_result.calls[1].name = "get_time"
    /\ turn["A"].call_fate = <<"returned", "returned">>

\* the expansion of one of the two summary formats, written out
Expansion(format, call, result) ==
    IF format = <<"{result}">>
    THEN result.content
    ELSE <<call.name, "(", call.arguments, "): ">> \o result.content

RECURSIVE Lines(_, _)
Lines(es, k) ==
    IF k = 0 THEN <<>>
    ELSE IF k = 1 THEN es[1]
    ELSE Lines(es, k - 1) \o <<"\n">> \o es[k]

\* C7: a turn with tool calls, no handoff among them and reflection disabled
\* ends with one Response, a ToolCallSummaryMessage whose content is the
\* expansions of the format for the calls, in request order, separated by a
\* newline, after a single call of create; with the format "{result}" and one
\* call the content is that call's result content.  No other turn ends with a
\* summary.
C7_Summary ==
    \A t \in Tasks :
        LET y == turn[t].yielded
            calls == turn[t].first_result.calls
            format == agent.tool_call_summary_format
            es == [i \in DOMAIN calls |-> Expansion(format, calls[i], turn[t].results[i])]
            applies == /\ turn[t].first_result.kind = "calls"
                       /\ MatchedCalls(t) = <<>>
                       /\ ~agent.reflect_on_tool_use
        IN
        Terminal(t) =>
            /\ applies =>
                  /\ Cardinality(ResponsesOf(y)) = 1
                  /\ LastOf(y).chat_message =
                        ToolCallSummaryMessage(Lines(es, Len(es)), AgentName)
                  /\ Len(turn[t].create_calls) = 1
                  /\ (format = <<"{result}">> /\ Len(calls) = 1) =>
                        LastOf(y).chat_message.content = turn[t].results[1].content
            /\ LastOf(y).chat_message.type = "ToolCallSummaryMessage" => applies

C7_Witness ==
    /\ turn["A"].pc = "done"
    /\ agent.tool_call_summary_format # <<"{result}">>
    /\ LastOf(turn["A"].yielded).chat_message.content =
          <<"get_time", "(", "{}", "): ", "12:00", "\n",
            "get_time", "(", "{oops", "): ", "Error: ",
            "Expecting property name enclosed in double quotes">>

\* C8: in a turn with tool calls, no handoff among them and reflection enabled,
\* create is called a second time only after the results are in the context:
\* the second call passes no tools and its messages end with the Assistant
\* message of the requests followed by the message of the results; create is
\* called exactly twice, and a Response of the turn is a TextMessage with the
\* text of the second result, which is the last message of the context.
C8_Reflection ==
    \A t \in Tasks :
        LET cc == turn[t].create_calls
            applies == /\ turn[t].first_result.kind = "calls"
                       /\ MatchedCalls(t) = <<>>
                       /\ agent.reflect_on_tool_use
        IN
        /\ turn[t].pc \in {"yield_tool_call", "await_gather", "yield_tool_result"}
              => Len(cc) = 1
        /\ (applies /\ turn[t].pc \in {"await_reflect", "yield_response", "done"}) =>
              LET m == cc[2].messages IN
              /\ Len(cc) = 2
              /\ cc[1].tools = Registry
              /\ cc[2].tools = <<>>
              /\ Len(m) >= 2
              /\ LastOf(m) = FunctionExecutionResultMessage(turn[t].results)
              /\ m[Len(m) - 1] = AssistantMessage(turn[t].first_result, AgentName)
        /\ (applies /\ turn[t].pc = "failed" /\ PastGather(t)) => Len(cc) = 2
        /\ (applies /\ Terminal(t)) =>
              /\ Cardinality(ResponsesOf(turn[t].yielded)) = 1
              /\ turn[t].result.kind = "text"
              /\ LastOf(turn[t].yielded).chat_message =
                    TextMessage(turn[t].result.text, AgentName)
              /\ LastOf(model_context) = AssistantMessage(turn[t].result, AgentName)
        /\ Len(cc) <= 2

C8_Witness ==
    /\ turn["A"].pc = "done"
    /\ agent.reflect_on_tool_use
    /\ Len(turn["A"].create_calls) = 2
    /\ Len(turn["A"].first_result.calls) = 2
    /\ LastOf(turn["A"].yielded).chat_message.content = <<"It is noon">>

DupPair(s) == \E i, j \in DOMAIN s : i < j /\ s[i] = s[j]

ConfigurationErrors ==
    { "ValueError: The model does not support function calling.",
      "ValueError: Tool names must be unique",
      "ValueError: The model does not support function calling, which is needed for handoffs.",
      "ValueError: Handoff names must be unique",
      "ValueError: Handoff names must be unique from tool names" }

\* C9: construction fails with a ValueError when two tools share a name, two
\* handoffs share a handoff-tool name, or a handoff-tool name is a tool name;
\* a constructed agent's tools and handoff tools together have no name twice.
C9_UniqueNames ==
    agent.state # "new" =>
        LET tn == init_args.tools.items
            hn == [i \in DOMAIN init_args.handoffs.items |->
                      init_args.handoffs.items[i].name]
        IN
        /\ (\/ DupPair(tn)
            \/ DupPair(hn)
            \/ \E i \in DOMAIN hn, j \in DOMAIN tn : hn[i] = tn[j])
              => /\ agent.state = "error"
                 /\ agent.error \in ConfigurationErrors
        /\ agent.state = "ready" =>
              /\ ~DupPair(Registry)
              /\ Registry = tn \o hn
              /\ \A n \in CallNames :
                    Cardinality({i \in DOMAIN Registry : Registry[i] = n}) <= 1
              /\ DOMAIN agent.handoffs = SeqToSet(hn)

C9_Witness ==
    /\ agent.state = "error"
    /\ init_args.tools.items = <<"get_time", "transfer_to_a">>
    /\ Len(init_args.handoffs.items) = 2
    /\ init_args.handoffs.items[2].name = "transfer_to_a"
    /\ init_args.handoffs.items[1].name = "transfer_to_b"
    /\ agent.error = "ValueError: Handoff names must be unique from tool names"

\* C10: a turn that fails because a message of the batch is multi-modal and the
\* model lacks vision leaves the context as it was before the turn, and has
\* neither updated a memory provider nor called create.
C10_NoPartialMutation ==
    \A t \in Tasks :
        turn[t].failure = "ValueError: The model does not support vision." =>
            /\ model_context = turn[t].context_before
            /\ turn[t].memory_i = 0
            /\ turn[t].create_calls = <<>>

\* C11: after on_reset the model context is empty, as that of an agent
\* constructed without a model_context, however many turns have run and
\* whatever messages the context given at construction held; they are not put
\* back.
C11_ResetClears ==
    caller.last = "on_reset" =>
        /\ model_context = <<>>
        /\ model_context = NoArgs.model_context

C11_Witness ==
    /\ caller.last = "on_reset"
    /\ caller.turns_done = 1
    /\ turn["A"].pc = "done"
    /\ init_args.model_context # <<>>
    /\ Len(turn["A"].context_before) >= 3
    /\ model_context = <<>>

\* C12: once a state returned by save_state has been loaded on a new agent, the
\* new agent's context has the messages the source agent's context had when the
\* state was saved, as many, the same and in the same order, whatever turns led
\* there and whatever the source agent has done since; the same holds for the
\* agent itself right after it loads a state; and a step that saves a state
\* leaves the source agent's context as it was.
C12_SaveLoadRoundTrip ==
    /\ [](/\ new_agent.loaded =>
                /\ Len(new_agent.model_context) = Len(new_agent.from_context)
                /\ \A i \in DOMAIN new_agent.from_context :
                      new_agent.model_context[i] = new_agent.from_context[i]
          /\ caller.last = "load_state" => model_context = saved_state.context)
    /\ [][saved_state' # saved_state => model_context' = model_context]_vars

C12_Witness ==
    /\ new_agent.loaded
    /\ caller.turns_done = 1
    /\ Len(new_agent.model_context) >= 4
    /\ \E i \in DOMAIN new_agent.model_context :
          new_agent.model_context[i].type = "FunctionExecutionResultMessage"
    /\ new_agent.model_context = saved_state.context
    /\ model_context # new_agent.model_context

AllCallsDone(t) ==
    /\ Len(turn[t].call_state) = Len(turn[t].first_result.calls)
    /\ \A i \in DOMAIN turn[t].call_state : turn[t].call_state[i] = "done"

\* C13: in every turn, create is not called before every memory provider has
\* been updated and has returned; no tool call is started before the first
\* create has returned a list of calls; handoffs are detected (a warning, a
\* handoff Response, the reflective create, the summary) only once every call
\* of the turn is done; and the reflective create and the summary happen only
\* when no request names a handoff.
C13_PhaseOrder ==
    \A t \in Tasks :
        LET tr == turn[t]
            y == tr.yielded
        IN
        /\ tr.pc \in {"await_memory", "yield_memory"} =>
              /\ tr.create_calls = <<>>
              /\ tr.call_state = <<>>
              /\ ResponsesOf(y) = {}
        /\ tr.create_calls # <<>> =>
              /\ tr.updates = agent.memory
              /\ Len(tr.returned_items) = Len(agent.memory)
              /\ tr.memory_i = Len(agent.memory) + 1
        /\ tr.pc = "await_create" => tr.call_state = <<>> /\ y = tr.inner_messages
        /\ tr.call_state # <<>> =>
              /\ tr.first_result.kind = "calls"
              /\ Len(tr.create_calls) >= 1
              /\ \E i \in DOMAIN model_context :
                    model_context[i] = AssistantMessage(tr.first_result, AgentName)
        /\ tr.pc \in {"yield_tool_call", "await_gather"} =>
              /\ warned = <<>>
              /\ ResponsesOf(y) = {}
              /\ Len(tr.create_calls) = 1
        /\ (\/ warned # <<>>
            \/ Len(tr.create_calls) = 2
            \/ (ResponsesOf(y) # {} /\ tr.first_result.kind = "calls"))
              => AllCallsDone(t) /\ PastGather(t)
        /\ (\/ Len(tr.create_calls) = 2
            \/ (ResponsesOf(y) # {} /\
                LastOf(y).chat_message.type = "ToolCallSummaryMessage"))
              => MatchedCalls(t) = <<>>

C13_Witness ==
    /\ turn["A"].pc = "done"
    /\ turn["A"].updates = <<1>>
    /\ Len(turn["A"].create_calls) = 2
    /\ turn["A"].call_fate = <<"returned", "returned">>
    /\ Len(turn["A"].yielded) = 4
    /\ [i \in 1..4 |-> turn["A"].yielded[i].type] =
          <<"MemoryQueryEvent", "ToolCallRequestEvent", "ToolCallExecutionEvent", "Response">>

\* the messages the context has gained since the turn of t began
AddedInTurn(t) ==
    SubSeq(model_context, Len(turn[t].context_before) + 1, Len(model_context))

CountOfType(msgs, type) == Cardinality({i \in DOMAIN msgs : msgs[i].type = type})

\* C14: whenever the stream has yielded something derived from an inference
\* result (the tool-call request event of a first result that is a list of
\* calls, the text Response of a first or of a reflective result), that result
\* is in the context as an Assistant message of the agent, and it is the last
\* entry at the moment of the yield; the context holds one Assistant message
\* per result yielded from.  (A reflective result that is not text is yielded
\* nothing from: C19.)
C14_AppendedBeforeYield ==
    \A t \in Tasks :
        LET tr == turn[t]
            y == tr.yielded
            added == AddedInTurn(t)
        IN
        /\ tr.pc = "yield_tool_call" =>
              /\ LastOf(y) = ToolCallRequestEvent(tr.first_result.calls, AgentName)
              /\ added # <<>>
              /\ LastOf(added) = AssistantMessage(tr.first_result, AgentName)
        /\ \A i \in DOMAIN y :
              /\ y[i].type = "ToolCallRequestEvent" =>
                    \E j \in DOMAIN added :
                        added[j] = AssistantMessage(CallsResult(y[i].calls), AgentName)
              /\ (y[i].type = "Response" /\ y[i].chat_message.type = "TextMessage") =>
                    /\ added # <<>>
                    /\ LastOf(added) =
                          AssistantMessage(TextResult(y[i].chat_message.content), AgentName)
                    /\ LastOf(added) = AssistantMessage(tr.result, AgentName)
        /\ tr.pc # "idle" =>
              CountOfType(added, "AssistantMessage") =
                 CountOfType(y, "ToolCallRequestEvent") +
                 Cardinality({i \in DOMAIN y : /\ y[i].type = "Response"
                                               /\ y[i].chat_message.type = "TextMessage"})

C14_Witness ==
    /\ turn["A"].pc = "yield_response"
    /\ Len(turn["A"].create_calls) = 2
    /\ Len(model_context) = 4
    /\ model_context[2].calls = turn["A"].first_result.calls
    /\ Len(model_context[2].calls) = 2
    /\ model_context[4] = AssistantMessage(TextResult(<<"It is noon">>), AgentName)
    /\ LastOf(turn["A"].yielded).chat_message.content = <<"It is noon">>

\* C15: in a turn with k requested calls the context gains no
\* FunctionExecutionResult message before the calls have all completed, and
\* exactly one from then on: it is there when the tool-call-result event is
\* yielded, it holds the k results, result i with the id of request i, the
\* same list the event carries, and it directly follows the Assistant message
\* of the requests.
C15_OneResultMessage ==
    \A t \in Tasks :
        LET tr == turn[t]
            calls == tr.first_result.calls
            added == AddedInTurn(t)
            n == CountOfType(added, "FunctionExecutionResultMessage")
        IN
        /\ n >= 1 => AllCallsDone(t)
        /\ (tr.pc # "idle" /\ ~PastGather(t)) => n = 0
        /\ PastGather(t) =>
              /\ n = 1
              /\ \E j \in DOMAIN added :
                    /\ j > 1
                    /\ added[j] = FunctionExecutionResultMessage(tr.results)
                    /\ added[j - 1] = AssistantMessage(tr.first_result, AgentName)
                    /\ Len(added[j].results) = Len(calls)
                    /\ \A i \in DOMAIN calls : added[j].results[i].call_id = calls[i].id
                    /\ added[j].results = tr.call_results
              /\ \A i \in DOMAIN tr.yielded :
                    tr.yielded[i].type = "ToolCallExecutionEvent" =>
                        tr.yielded[i].results = tr.results
        /\ tr.pc = "yield_tool_result" =>
              LastOf(added) = FunctionExecutionResultMessage(tr.results)

C15_Witness ==
    /\ turn["A"].pc = "yield_tool_result"
    /\ turn["A"].done_order = <<2, 1>>
    /\ Len(LastOf(model_context).results) = 2
    /\ LastOf(model_context).results[1].call_id = CallId(1)
    /\ LastOf(model_context).results[1].content # LastOf(model_context).results[2].content
    /\ CountOfType(model_context, "FunctionExecutionResultMessage") = 1

IsPrefix(s, r) == Len(s) <= Len(r) /\ s = SubSeq(r, 1, Len(s))

\* the memory-query events a turn is to have yielded, given what its providers
\* have returned so far
ExpectedMemoryEvents(tr) ==
    LET idx == SelectSeq([i \in DOMAIN tr.returned_items |-> i],
                         LAMBDA i : tr.returned_items[i])
    IN  [k \in DOMAIN idx |-> MemoryQueryEvent(MemoryContent(tr.updates[idx[k]]), AgentName)]

\* C16: the providers are updated one at a time in registration order, none
\* twice, each when every message of the batch is in the context and before
\* create is called; once create is called (and in every turn that is done)
\* each has been updated exactly once; the memory-query events yielded are
\* those of the providers that returned a non-empty list, in registration
\* order, and nothing but memory-query events precedes one.
C16_MemoryUpdates ==
    \A t \in Tasks :
        LET tr == turn[t]
            y == tr.yielded
            added == AddedInTurn(t)
            users == [j \in DOMAIN tr.messages |->
                         UserMessage(tr.messages[j].content, tr.messages[j].source)]
        IN
        /\ IsPrefix(tr.updates, agent.memory)
        /\ Len(tr.returned_items) <= Len(tr.updates)
        /\ Len(tr.updates) <= Len(tr.returned_items) + 1
        /\ tr.pc = "await_memory" <=>
              (Len(tr.updates) = Len(tr.returned_items) + 1 /\ tr.failure = "")
        /\ tr.updates # <<>> => IsPrefix(users, added)
        /\ tr.pc \in {"await_memory", "yield_memory"} => tr.create_calls = <<>>
        /\ (tr.create_calls # <<>> \/ tr.pc = "done") =>
              /\ tr.updates = agent.memory
              /\ Len(tr.returned_items) = Len(agent.memory)
        /\ SelectSeq(y, LAMBDA m : m.type = "MemoryQueryEvent") = ExpectedMemoryEvents(tr)
        /\ \A i, j \in DOMAIN y :
              (i < j /\ y[j].type = "MemoryQueryEvent") => y[i].type = "MemoryQueryEvent"

C16_Witness ==
    /\ turn["A"].pc = "done"
    /\ turn["A"].updates = <<1, 2>>
    /\ turn["A"].returned_items = <<FALSE, TRUE>>
    /\ Len(turn["A"].messages) = 2
    /\ Len(turn["A"].yielded) = 4
    /\ turn["A"].yielded[1] = MemoryQueryEvent(MemoryContent(2), AgentName)
    /\ turn["A"].yielded[2].type = "ToolCallRequestEvent"

\* C17: a turn that has executed its tool calls ends in a handoff exactly when
\* one of the requests names a handoff the agent was constructed with, whatever
\* the results of the calls are, an "Error: " result of the handoff call itself
\* included; the handoff is that of the first such request; a request whose
\* name is not a registered handoff's never causes one, and neither does a text
\* result.
C17_HandoffByName ==
    \A t \in Tasks :
        LET tr == turn[t]
            y == tr.yielded
            calls == tr.first_result.calls
            registered == {h.name : h \in SeqToSet(init_args.handoffs.items)}
            named == {i \in DOMAIN calls : calls[i].name \in registered}
        IN
        /\ Terminal(t) =>
              /\ LastOf(y).chat_message.type = "HandoffMessage" <=> named # {}
              /\ named # {} =>
                    LastOf(y).chat_message.target =
                       agent.handoffs[calls[Min(named)].name].target
        /\ (PastGather(t) /\ named # {}) =>
              tr.pc \in {"yield_tool_result", "yield_response", "done"}

C17_Witness ==
    /\ turn["A"].pc = "done"
    /\ Len(turn["A"].first_result.calls) = 2
    /\ turn["A"].first_result.calls[1].name = "get_time"
    /\ turn["A"].first_result.calls[2] = FunctionCall(CallId(2), "transfer_to_a", "{oops")
    /\ turn["A"].call_fate = <<"returned", "lookup failed">>
    /\ Head(turn["A"].results[2].content) = "Error: "
    /\ LastOf(turn["A"].yielded).chat_message.type = "HandoffMessage"
    /\ LastOf(turn["A"].yielded).chat_message.target = "a"

\* C18: a turn in which a memory provider or the model client raises has
\* failed for good: it has yielded no Response (on_messages has none to
\* return), it takes no further step, and the call that raised was made once:
\* after a provider's failure no later provider has been updated and create has
\* not been called; after the first create's failure nothing was added to the
\* context for it and no tool call was started; after the reflective create's
\* failure create has been called twice.  While a create is awaited it is the
\* first call, or the second for the reflection.
C18_CollaboratorFailure ==
    \A t \in Tasks :
        LET tr == turn[t]
            y == tr.yielded
            added == AddedInTurn(t)
        IN
        /\ tr.pc = "await_create" => Len(tr.create_calls) = 1
        /\ tr.pc = "await_reflect" => Len(tr.create_calls) = 2
        /\ tr.failure \in {"memory", "model"} =>
              /\ tr.pc = "failed"
              /\ ResponsesOf(y) = {}
              /\ OnMessages(y) = <<>>
              /\ ~ENABLED Turn(t)
        /\ tr.failure = "memory" =>
              /\ tr.create_calls = <<>>
              /\ tr.call_state = <<>>
              /\ IsPrefix(tr.updates, agent.memory)
              /\ Len(tr.updates) = Len(tr.returned_items) + 1
              /\ CountOfType(added, "AssistantMessage") = 0
        /\ tr.failure = "model" =>
              /\ Len(tr.create_calls) \in {1, 2}
              /\ CountOfType(added, "AssistantMessage") = Len(tr.create_calls) - 1
              /\ Len(tr.create_calls) = 1 =>
                    /\ tr.call_state = <<>>
                    /\ y = tr.inner_messages
                    /\ \A i \in DOMAIN y : y[i].type = "MemoryQueryEvent"
              /\ Len(tr.create_calls) = 2 =>
                    /\ PastGather(t)
                    /\ LastOf(added) = FunctionExecutionResultMessage(tr.results)

C18_Witness ==
    /\ turn["A"].pc = "failed"
    /\ turn["A"].failure = "model"
    /\ Len(turn["A"].create_calls) = 2
    /\ Len(turn["A"].yielded) = 3
    /\ turn["A"].yielded[1].type = "MemoryQueryEvent"
    /\ turn["A"].call_fate = <<"returned">>

\* C19: a turn whose reflective create returned something other than text has
\* failed on the assertion: it has yielded no Response and takes no further
\* step, create has been called twice and no more, the calls executed are those
\* of the first result and no others, and the context has gained one Assistant
\* message only, that of the first result, its last entry being the turn's
\* FunctionExecutionResult message.  A reflective turn that does yield a
\* Response has a text as its second result.
C19_NonTextReflection ==
    \A t \in Tasks :
        LET tr == turn[t]
            y == tr.yielded
            added == AddedInTurn(t)
        IN
        /\ tr.failure = "AssertionError" =>
              /\ tr.pc = "failed"
              /\ agent.reflect_on_tool_use
              /\ ResponsesOf(y) = {}
              /\ OnMessages(y) = <<>>
              /\ ~ENABLED Turn(t)
              /\ Len(tr.create_calls) = 2
              /\ AllCallsDone(t)
              /\ tr.results = tr.call_results
              /\ CountOfType(y, "ToolCallRequestEvent") = 1
              /\ CountOfType(y, "ToolCallExecutionEvent") = 1
              /\ CountOfType(added, "AssistantMessage") = 1
              /\ LastOf(added) = FunctionExecutionResultMessage(tr.results)
              /\ added[Len(added) - 1] = AssistantMessage(tr.first_result, AgentName)
        /\ (Len(tr.create_calls) = 2 /\ ResponsesOf(y) # {}) => tr.result.kind = "text"

C19_Witness ==
    /\ turn["A"].failure = "AssertionError"
    /\ turn["A"].call_fate = <<"returned", "raised">>
    /\ LastOf(model_context).type = "FunctionExecutionResultMessage"
    /\ Len(turn["A"].yielded) = 2

\* what the agent itself adds to the context in a completed turn: the batch as
\* User messages, and the messages of the inference results and tool results
UsersOf(tr) ==
    [j \in DOMAIN tr.messages |-> UserMessage(tr.messages[j].content, tr.messages[j].source)]

AfterInference(t) ==
    LET tr == turn[t] IN
    <<AssistantMessage(tr.first_result, AgentName)>>
    \o (IF tr.first_result.kind = "calls"
        THEN <<FunctionExecutionResultMessage(tr.results)>> ELSE <<>>)
    \o (IF /\ tr.first_result.kind = "calls"
           /\ MatchedCalls(t) = <<>>
           /\ agent.reflect_on_tool_use
        THEN <<AssistantMessage(tr.result, AgentName)>> ELSE <<>>)

\* C20: a step changes the context only by adding at its end, unless it is a
\* reset or a load; during a turn the context the turn began with stays as the
\* front of the context; and when a turn is done the context is the one it
\* began with followed by the User messages of the batch in input order, then
\* whatever the memory providers put in themselves, then the Assistant message
\* of the first result, then, if calls were requested, one
\* FunctionExecutionResult message, then, in the reflection branch only, one
\* Assistant text message, and nothing else: neither the summary nor the
\* handoff message.
C20_AppendOnlyBlocks ==
    /\ [][\/ (caller'.last \in {"on_reset", "load_state"} /\ caller'.last # caller.last)
          \/ IsPrefix(model_context, model_context')]_vars
    /\ [](\A t \in Tasks :
            LET tr == turn[t]
                added == AddedInTurn(t)
                users == UsersOf(tr)
                rest == AfterInference(t)
                middle == SubSeq(added, Len(users) + 1, Len(added) - Len(rest))
            IN
            (tr.pc # "idle" /\ caller.last = "on_messages_stream") =>
                /\ IsPrefix(tr.context_before, model_context)
                /\ tr.pc = "done" =>
                      /\ Len(added) >= Len(users) + Len(rest)
                      /\ SubSeq(added, 1, Len(users)) = users
                      /\ SubSeq(added, Len(added) - Len(rest) + 1, Len(added)) = rest
                      /\ Len(middle) <= Len(agent.memory)
                      /\ \A j \in DOMAIN middle :
                            middle[j] \in {SystemMessage(MemoryContent(i)) :
                                              i \in SeqToSet(agent.memory)}
                      /\ Len(rest) = 3 => tr.result.kind = "text"
                      /\ \A j \in DOMAIN added :
                            added[j].type = "AssistantMessage" =>
                               added[j].content # LastOf(tr.yielded).chat_message.content
                               \/ LastOf(tr.yielded).chat_message.type = "TextMessage")

C20_Witness ==
    /\ caller.turns_done = 1
    /\ caller.last = "on_messages_stream"
    /\ turn["A"].pc = "done"
    /\ Len(turn["A"].context_before) = 5
    /\ turn["A"].context_before[5].type = "AssistantMessage"
    /\ LastOf(turn["A"].yielded).chat_message.type = "HandoffMessage"
    /\ Len(model_context) = 8
    /\ model_context[7].calls # <<>>
    /\ model_context[8].type = "FunctionExecutionResultMessage"

EventTypes == {"MemoryQueryEvent", "ToolCallRequestEvent", "ToolCallExecutionEvent"}

\* the events a turn is to have yielded so far, from what has happened in it:
\* its providers' returns, its first result and its gathered results
EventsOfTurn(t) ==
    LET tr == turn[t] IN
    ExpectedMemoryEvents(tr)
    \o (IF tr.first_result.kind = "calls"
        THEN <<ToolCallRequestEvent(tr.first_result.calls, AgentName)>> ELSE <<>>)
    \o (IF tr.first_result.kind = "calls" /\ AllCallsDone(t)
           /\ tr.pc \notin {"yield_tool_call", "await_gather"}
           /\ tr.failure # "CancelledError"
        THEN <<ToolCallExecutionEvent(tr.results, AgentName)>> ELSE <<>>)

\* C21: in every turn, the first as well as one that follows other turns, the
\* list inner_messages is the events the stream has yielded in this turn, in
\* the order of the yields, and these are the events of this turn's own
\* providers, request and results and no others; the Response, once yielded,
\* carries that list and is preceded in the stream by exactly those events; a
\* turn begins with no event.
C21_InnerMessages ==
    \A t \in Tasks :
        LET tr == turn[t]
            y == tr.yielded
            events == SelectSeq(y, LAMBDA m : m.type \in EventTypes)
        IN
        tr.pc # "idle" =>
            /\ tr.inner_messages = events
            /\ tr.inner_messages = EventsOfTurn(t)
            /\ (tr.returned_items = <<>> /\ tr.create_calls = <<>>) =>
                  tr.inner_messages = <<>>
            /\ ResponsesOf(y) # {} =>
                  /\ LastOf(y).inner_messages = SubSeq(y, 1, Len(y) - 1)
                  /\ LastOf(y).inner_messages = events
                  /\ OnMessages(y) = <<Response(LastOf(y).chat_message, events)>>

C21_Witness ==
    /\ caller.turns_done = 1
    /\ turn["A"].pc = "done"
    /\ CountOfType(turn["A"].context_before, "FunctionExecutionResultMessage") = 1
    /\ Len(turn["A"].yielded) = 4
    /\ [i \in 1..3 |-> LastOf(turn["A"].yielded).inner_messages[i].type] =
          <<"MemoryQueryEvent", "ToolCallRequestEvent", "ToolCallExecutionEvent">>

\* the invocation is between its first step and its end
Running(t) == turn[t].pc \notin {"idle", "done", "failed"}

\* the turn's FunctionExecutionResult message directly follows its own
\* Assistant tool-call message in the context
ResultFollowsOwnCall(t) ==
    \E j \in DOMAIN model_context :
        /\ j > Len(turn[t].context_before) + 1
        /\ model_context[j] = FunctionExecutionResultMessage(turn[t].results)
        /\ model_context[j - 1] = AssistantMessage(turn[t].first_result, AgentName)

\* what an inference call of the turn is given when no other invocation has
\* appended since the turn began: the context of before the turn, then the
\* turn's own entries
SeesOwnEntriesOnly(t) ==
    LET tr == turn[t]
        before == agent.system_messages \o tr.context_before \o UsersOf(tr)
    IN
    /\ Len(tr.create_calls) >= 1 =>
          LET seen == tr.create_calls[1].messages
              middle == SubSeq(seen, Len(before) + 1, Len(seen))
          IN  /\ IsPrefix(before, seen)
              /\ Len(middle) <= Len(agent.memory)
              /\ \A j \in DOMAIN middle :
                    middle[j] \in {SystemMessage(MemoryContent(i)) :
                                      i \in SeqToSet(agent.memory)}
    /\ Len(tr.create_calls) >= 2 =>
          tr.create_calls[2].messages =
              tr.create_calls[1].messages
              \o <<AssistantMessage(tr.first_result, AgentName),
                   FunctionExecutionResultMessage(tr.results)>>

\* C22: _is_running stays False and nothing tests it: an invocation can begin
\* whenever the agent is constructed, whatever another invocation on the same
\* agent is doing, and an invocation that has begun can always take its next
\* step; as long as no invocation has begun while another was in progress, at
\* most one is in progress, a turn's FunctionExecutionResult message directly
\* follows its own Assistant tool-call message, and every inference call is
\* given the context of before the turn followed by the turn's own entries.
C22_NoGuard ==
    /\ agent.is_running = FALSE
    /\ \A t \in DOMAIN turn :
          /\ (agent.state = "ready" /\ turn[t].pc = "idle") =>
                ENABLED (\E messages \in ConcurrentBatches : OnMessagesStream(t, messages))
          /\ Running(t) => ENABLED ConcurrentTurn(t)
    /\ ~caller.overlapped =>
          /\ Cardinality({t \in DOMAIN turn : Running(t)}) <= 1
          /\ \A t \in DOMAIN turn :
                /\ PastGather(t) => ResultFollowsOwnCall(t)
                /\ SeesOwnEntriesOnly(t)

\* both invocations have run to their Response, the second having begun while
\* the first awaited its tools; the first one's FunctionExecutionResult message
\* follows the second one's Assistant message, and the second one's inference
\* call was given the first one's Assistant tool-call message with no result
\* after it
C22_Witness ==
    /\ caller.overlapped
    /\ turn["A"].pc = "done"
    /\ turn["B"].pc = "done"
    /\ PastGather("A")
    /\ ~ResultFollowsOwnCall("A")
    /\ \A j \in DOMAIN model_context :
          model_context[j].type = "FunctionExecutionResultMessage" =>
              /\ j > 1
              /\ model_context[j - 1] = AssistantMessage(turn["B"].first_result, AgentName)
              /\ turn["B"].first_result.kind = "text"
    /\ ~SeesOwnEntriesOnly("B")
    /\ Len(turn["B"].create_calls) = 1
    /\ LET seen == turn["B"].create_calls[1].messages IN
       \E k \in DOMAIN seen :
          /\ seen[k] = AssistantMessage(turn["A"].first_result, AgentName)
          /\ seen[k].calls # <<>>
          /\ \A j \in DOMAIN seen : seen[j].type # "FunctionExecutionResultMessage"

====
